---- MODULE Spec2Model ----
(***************************************************************************)
(* Model of mddoc-toolkit: the Markdown heading scanner, the section       *)
(* builder, the keyword dictionary, the keyword query and the changelog    *)
(* range extraction.  Strings are sequences of one-character strings.      *)
(***************************************************************************)
EXTENDS Integers, Sequences, FiniteSets, TLC

VARIABLES content, sections, sources, dictionary, alias, added, phase, op,
          result

vars ==
  <<content, sections, sources, dictionary, alias, added, phase, op, result>>

----------------------------------------------------------------------------
(* Bounds of the model.                                                    *)

MaxLines == 4

MaxRangeLines == 4

MaxSources == 3

MaxAdded == 1

MaxText == 6

----------------------------------------------------------------------------
(* Strings.                                                                *)

NL == "\n"

Whitespace == {" ", NL}

Max(a, b) == IF a >= b THEN a ELSE b

Min(a, b) == IF a <= b THEN a ELSE b

Slice(s, from, to) == SubSeq(s, Max(from, 1), Min(to - 1, Len(s)))

RECURSIVE RunEnd(_, _, _)
RunEnd(s, i, set) ==
  IF i <= Len(s) /\ s[i] \in set THEN RunEnd(s, i + 1, set) ELSE i

RECURSIVE LineEnd(_, _)
LineEnd(s, i) ==
  IF i <= Len(s) /\ s[i] # NL THEN LineEnd(s, i + 1) ELSE i

RECURSIVE TrimEndIdx(_, _)
TrimEndIdx(s, j) ==
  IF j >= 1 /\ s[j] \in Whitespace THEN TrimEndIdx(s, j - 1) ELSE j

Trim(s) == SubSeq(s, RunEnd(s, 1, Whitespace), TrimEndIdx(s, Len(s)))

LowerChar(c) ==
  CASE c = "A" -> "a"
    [] c = "B" -> "b"
    [] c = "C" -> "c"
    [] c = "T" -> "t"
    [] OTHER -> c

ToLowerCase(s) == [i \in 1..Len(s) |-> LowerChar(s[i])]

Includes(s, k) ==
  \E i \in 0..(Len(s) - Len(k)) : SubSeq(s, i + 1, i + Len(k)) = k

RECURSIVE Join(_)
Join(lines) ==
  IF lines = <<>> THEN <<>>
  ELSE IF Len(lines) = 1 THEN lines[1]
  ELSE lines[1] \o <<NL>> \o Join(Tail(lines))

SeqsUpTo(S, n) == UNION {[1..m -> S] : m \in 0..n}

----------------------------------------------------------------------------
\* Heading scanner: the multiline, global heading pattern with two
\* alternatives: a run of hashes, whitespace, rest of line (groups 1, 2);
\* or a non-empty line, a newline, a run of = or of -, whitespace, end of
\* line (groups 3, 4).

AtLineStart(c, i) == i = 1 \/ c[i - 1] = NL

AtLineEnd(c, p) == p = Len(c) + 1 \/ c[p] = NL

\* First alternative at offset i: groups 1 and 2.
MatchHash(c, i) ==
  LET hashEnd == RunEnd(c, i, {"#"})
      wsEnd == RunEnd(c, hashEnd, Whitespace)
      textEnd == LineEnd(c, wsEnd)
  IN  [start |-> i, end |-> textEnd,
       g1 |-> Slice(c, i, hashEnd), g2 |-> Slice(c, wsEnd, textEnd),
       g3 |-> <<>>, g4 |-> <<>>]

HashMatches(c, i) == AtLineStart(c, i) /\ i <= Len(c) /\ c[i] = "#"

\* Second alternative at offset i: groups 3 and 4; \s* gives back
\* characters until $ holds.
UnderlineStops(c, i) ==
  LET lineEnd == LineEnd(c, i)
      u == lineEnd + 1
      uEnd == RunEnd(c, u, {c[u]})
      wsEnd == RunEnd(c, uEnd, Whitespace)
  IN  {p \in uEnd..wsEnd : AtLineEnd(c, p)}

UnderlineMatches(c, i) ==
  /\ AtLineStart(c, i)
  /\ i <= Len(c)
  /\ c[i] # NL
  /\ LineEnd(c, i) + 1 <= Len(c)
  /\ c[LineEnd(c, i) + 1] \in {"=", "-"}
  /\ UnderlineStops(c, i) # {}

MatchUnderline(c, i) ==
  LET lineEnd == LineEnd(c, i)
      u == lineEnd + 1
      uEnd == RunEnd(c, u, {c[u]})
      stops == UnderlineStops(c, i)
      p == CHOOSE q \in stops : \A r \in stops : r <= q
  IN  [start |-> i, end |-> p,
       g1 |-> <<>>, g2 |-> <<>>,
       g3 |-> Slice(c, i, lineEnd), g4 |-> Slice(c, u, uEnd)]

\* Variant: only the hash alternative yields a level.
determineHeadingLevelFromHashes(m) == IF m.g1 # <<>> THEN Len(m.g1) ELSE 0

determineHeadingLevelFromMatch(m) ==
  IF m.g1 # <<>> THEN Len(m.g1)
  ELSE IF m.g3 # <<>> /\ m.g4 # <<>>
       THEN (IF Trim(m.g4)[1] = "=" THEN 1 ELSE 2)
       ELSE 0

\* One regex exec from lastIndex: the leftmost offset where an alternative
\* matches, the first alternative tried first.
RECURSIVE Exec(_, _)
Exec(c, i) ==
  IF i > Len(c) THEN [found |-> FALSE]
  ELSE IF HashMatches(c, i) THEN [found |-> TRUE, m |-> MatchHash(c, i)]
  ELSE IF UnderlineMatches(c, i)
       THEN [found |-> TRUE, m |-> MatchUnderline(c, i)]
       ELSE Exec(c, i + 1)

RECURSIVE ExtractHeadingsFrom(_, _)
ExtractHeadingsFrom(c, lastIndex) ==
  LET r == Exec(c, lastIndex)
  IN  IF ~r.found THEN <<>>
      ELSE <<[level |-> determineHeadingLevelFromMatch(r.m),
              text |-> IF r.m.g1 # <<>> THEN Trim(r.m.g2) ELSE Trim(r.m.g3),
              startIndex |-> r.m.start,
              endIndex |-> r.m.end]>>
           \o ExtractHeadingsFrom(c, r.m.end)

extractHeadings(c) == ExtractHeadingsFrom(c, 1)

----------------------------------------------------------------------------
(* Section builder.                                                        *)

extractBody(c, startIndex, endIndex) == Slice(c, startIndex, endIndex)

\* Variant: the body text is stored without trimming.
OwnBodyUntrimmed(c, hs, i) ==
  extractBody(c, hs[i].endIndex,
              IF i < Len(hs) THEN hs[i + 1].startIndex ELSE Len(c) + 1)

\* Text between heading i and the next heading (or the end), trimmed.
OwnBody(c, hs, i) ==
  Trim(extractBody(c, hs[i].endIndex,
                   IF i < Len(hs) THEN hs[i + 1].startIndex ELSE Len(c) + 1))

\* Variant: the block is marked one level deeper.
RenderBlockDeeper(heading, body) ==
  <<NL, NL, "#", "#", "#", " ">> \o heading \o <<NL, NL>> \o body

\* The rendered block of an absorbed subsection.
RenderBlock(heading, body) ==
  <<NL, NL, "#", "#", " ">> \o heading \o <<NL, NL>> \o body

\* Variant: a heading that is not deeper is passed over and the deeper
\* headings after it are still taken in.
RECURSIVE AbsorbedPastShallow(_, _, _, _)
AbsorbedPastShallow(c, hs, k, level) ==
  IF k > Len(hs) THEN <<>>
  ELSE IF hs[k].level <= level THEN AbsorbedPastShallow(c, hs, k + 1, level)
  ELSE RenderBlock(hs[k].text, OwnBody(c, hs, k))
       \o AbsorbedPastShallow(c, hs, k + 1, level)

\* Variant: the block of a heading carries that heading's body with its own
\* deeper followers already folded in.
RECURSIVE AbsorbedRecursive(_, _, _, _)
AbsorbedRecursive(c, hs, k, level) ==
  IF k > Len(hs) \/ hs[k].level <= level THEN <<>>
  ELSE RenderBlock(hs[k].text,
                   Trim(OwnBody(c, hs, k)
                        \o AbsorbedRecursive(c, hs, k + 1, hs[k].level)))
       \o AbsorbedRecursive(c, hs, k + 1, level)

\* Blocks of the headings k, k+1, ... that are deeper than level.
RECURSIVE Absorbed(_, _, _, _)
Absorbed(c, hs, k, level) ==
  IF k > Len(hs) \/ hs[k].level <= level THEN <<>>
  ELSE RenderBlock(hs[k].text, OwnBody(c, hs, k))
       \o Absorbed(c, hs, k + 1, level)

\* Variant: a section holds only the text up to the next heading.
SectionAtOwnOnly(c, hs, i) ==
  [level |-> hs[i].level, heading |-> hs[i].text, body |-> OwnBody(c, hs, i)]

SectionAt(c, hs, i) ==
  [level |-> hs[i].level,
   heading |-> hs[i].text,
   body |-> Trim(OwnBody(c, hs, i) \o Absorbed(c, hs, i + 1, hs[i].level))]

\* Variant: the last heading is not turned into a section.
extractSectionsDropLast(c) ==
  LET hs == extractHeadings(c)
  IN  [i \in 1..(Len(hs) - 1) |-> SectionAt(c, hs, i)]

extractSections(c) ==
  LET hs == extractHeadings(c)
  IN  [i \in 1..Len(hs) |-> SectionAt(c, hs, i)]

----------------------------------------------------------------------------
(* Keyword dictionary.                                                     *)

EmptyDictionary == [k \in {} |-> <<>>]

\* Object spread of b over a: keys of both, the values of b win.
Spread(a, b) ==
  [k \in (DOMAIN a) \cup (DOMAIN b) |-> IF k \in DOMAIN b THEN b[k] ELSE a[k]]

\* Variant: the arrays of a key defined twice are concatenated.
RECURSIVE mergeDictionariesConcat(_)
mergeDictionariesConcat(srcs) ==
  IF srcs = <<>> THEN EmptyDictionary
  ELSE LET rest == mergeDictionariesConcat(SubSeq(srcs, 1, Len(srcs) - 1))
           last == srcs[Len(srcs)].map
       IN  [k \in (DOMAIN rest) \cup (DOMAIN last) |->
              IF k \in DOMAIN rest /\ k \in DOMAIN last
              THEN rest[k] \o last[k]
              ELSE IF k \in DOMAIN last THEN last[k] ELSE rest[k]]

RECURSIVE mergeDictionaries(_)
mergeDictionaries(srcs) ==
  IF srcs = <<>> THEN EmptyDictionary
  ELSE Spread(mergeDictionaries(SubSeq(srcs, 1, Len(srcs) - 1)),
              srcs[Len(srcs)].map)

\* For each merged key, the in-memory source whose array object the merged
\* dictionary holds (0: an array read from a file or created by the parser).
RECURSIVE MergedAlias(_)
MergedAlias(srcs) ==
  IF srcs = <<>> THEN EmptyDictionary
  ELSE LET n == Len(srcs)
       IN  Spread(MergedAlias(SubSeq(srcs, 1, n - 1)),
                  [k \in DOMAIN srcs[n].map |->
                     IF srcs[n].inline THEN n ELSE 0])

getKeywordsForSection(dict, section) ==
  IF section \in DOMAIN dict THEN dict[section] ELSE <<>>

\* A variant that starts the key's list afresh on every call.
addKeywordForSectionReset(dict, section, keyword) ==
  Spread(dict, [k \in {section} |-> <<keyword>>])

addKeywordForSection(dict, section, keyword) ==
  IF section \in DOMAIN dict
  THEN [dict EXCEPT ![section] = Append(@, keyword)]
  ELSE Spread(dict, [k \in {section} |-> <<keyword>>])

----------------------------------------------------------------------------
(* Keyword query.                                                          *)

\* Variant: every three newlines are replaced, one group at a time.
RECURSIVE CollapseNewlinesByThree(_)
CollapseNewlinesByThree(t) ==
  IF t = <<>> THEN <<>>
  ELSE IF Len(t) >= 3 /\ SubSeq(t, 1, 3) = <<NL, NL, NL>>
       THEN <<NL, NL>> \o CollapseNewlinesByThree(SubSeq(t, 4, Len(t)))
       ELSE <<t[1]>> \o CollapseNewlinesByThree(Tail(t))

RECURSIVE CollapseNewlines(_)
CollapseNewlines(t) ==
  IF t = <<>> THEN <<>>
  ELSE IF t[1] = NL
       THEN LET e == RunEnd(t, 1, {NL})
                run == e - 1
            IN  (IF run >= 3 THEN <<NL, NL>> ELSE SubSeq(t, 1, run))
                \o CollapseNewlines(SubSeq(t, e, Len(t)))
       ELSE <<t[1]>> \o CollapseNewlines(Tail(t))

formatText(t) == Trim(CollapseNewlines(t))

\* Variants of the predicate of the section search.
SectionMatchesCaseSensitive(section, keywords) ==
  \E n \in 1..Len(keywords) : Includes(section.heading, keywords[n])

SectionMatchesHeadingOrBody(section, keywords) ==
  \E n \in 1..Len(keywords) :
    \/ Includes(ToLowerCase(section.heading), keywords[n])
    \/ Includes(ToLowerCase(section.body), keywords[n])

\* keywords.some(keyword => section.heading.toLowerCase().includes(keyword))
SectionMatches(section, keywords) ==
  \E n \in 1..Len(keywords) :
    Includes(ToLowerCase(section.heading), keywords[n])

\* The scan over the flat section list: state is the closed matches and
\* the open match (a one-element or empty sequence).
\* Variant: a section that is not deeper than the open match leaves it open.
RECURSIVE QueryScanKeepsOpen(_, _, _, _, _)
QueryScanKeepsOpen(secs, i, keywords, matches, current) ==
  IF i > Len(secs) THEN matches \o current
  ELSE IF SectionMatches(secs[i], keywords)
       THEN QueryScanKeepsOpen(secs, i + 1, keywords, matches \o current,
                               <<secs[i]>>)
  ELSE IF current # <<>> /\ secs[i].level > current[1].level
       THEN QueryScanKeepsOpen(secs, i + 1, keywords, matches,
                               <<[current[1] EXCEPT
                                    !.body = @ \o RenderBlock(secs[i].heading,
                                                              secs[i].body)]>>)
  ELSE QueryScanKeepsOpen(secs, i + 1, keywords, matches, current)

RECURSIVE QueryScan(_, _, _, _, _)
QueryScan(secs, i, keywords, matches, current) ==
  IF i > Len(secs) THEN matches \o current
  ELSE IF SectionMatches(secs[i], keywords)
       THEN QueryScan(secs, i + 1, keywords, matches \o current, <<secs[i]>>)
  ELSE IF current # <<>> /\ secs[i].level > current[1].level
       THEN QueryScan(secs, i + 1, keywords, matches,
                      <<[current[1] EXCEPT
                           !.body = @ \o RenderBlock(secs[i].heading,
                                                     secs[i].body)]>>)
  ELSE QueryScan(secs, i + 1, keywords, matches \o current, <<>>)

getSectionsByKeywordsInDictionary(secs, dict, sectionType) ==
  QueryScan(secs, 1, getKeywordsForSection(dict, sectionType), <<>>, <<>>)

NoMessage == [text |-> "", start |-> <<>>, end |-> <<>>]

Returned(v) == [kind |-> "returned", value |-> v, message |-> NoMessage]

Thrown(m) == [kind |-> "thrown", value |-> <<>>, message |-> m]

NoResult == [kind |-> "none", value |-> <<>>, message |-> NoMessage]

getSectionsWithTemplate(secs, dict, sectionType, errorMessage) ==
  LET found == getSectionsByKeywordsInDictionary(secs, dict, sectionType)
  IN  IF Len(found) = 0
      THEN Thrown([text |-> errorMessage, start |-> <<>>, end |-> <<>>])
      ELSE Returned([n \in 1..Len(found) |->
                       [title |-> found[n].heading,
                        body |-> formatText(found[n].body)]])

\* A single record handed back where other calls hand back a list.
ReturnedOne(v) ==
  [kind |-> "returnedOne", value |-> <<v>>, message |-> NoMessage]

\* The older search: the first section with a matching heading, or nothing.
getSectionByKeywordsInDictionary(secs, dict, sectionType) ==
  LET keywords == getKeywordsForSection(dict, sectionType)
      idx == {i \in 1..Len(secs) : SectionMatches(secs[i], keywords)}
  IN  IF idx = {} THEN <<>>
      ELSE <<secs[CHOOSE i \in idx : \A j \in idx : i <= j]>>

getSectionWithTemplate(secs, dict, sectionType, errorMessage) ==
  LET section == getSectionByKeywordsInDictionary(secs, dict, sectionType)
  IN  IF section = <<>>
      THEN Thrown([text |-> errorMessage, start |-> <<>>, end |-> <<>>])
      ELSE ReturnedOne([title |-> section[1].heading,
                        body |-> formatText(section[1].body)])

\* A variant of the scan that opens a match on the stored section itself,
\* so that what it appends lands in the stored list.
storedAfterQueryShared(secs, dict, sectionType) ==
  LET keywords == getKeywordsForSection(dict, sectionType)
      found == getSectionsByKeywordsInDictionary(secs, dict, sectionType)
      rank(i) == Cardinality({j \in 1..i : SectionMatches(secs[j], keywords)})
  IN  [i \in 1..Len(secs) |->
         IF SectionMatches(secs[i], keywords) THEN found[rank(i)] ELSE secs[i]]

\* The stored list after a query: the scan opens each match as a copy of the
\* section and appends to the copy only.
storedAfterQuery(secs, dict, sectionType) == secs

\* An argument that is no string at all.
NotAString == <<"number">>

\* #validateKeywordInput: TRUE when the keyword passes.
validateKeywordInput(keyword) ==
  /\ keyword # NotAString
  /\ Trim(keyword) # <<>>

\* Variant: the keyword is compared as given, not lower-cased.
getSectionsByHeadingAsGiven(secs, keyword) ==
  IF ~validateKeywordInput(keyword)
  THEN Thrown([text |-> "Invalid keyword. It must be a non-empty string.",
               start |-> <<>>, end |-> <<>>])
  ELSE LET matchingSections ==
             SelectSeq(secs, LAMBDA section :
               Includes(ToLowerCase(section.heading), keyword))
       IN  IF Len(matchingSections) = 0
           THEN Thrown([text |-> "No heading found with provided keyword: ",
                        start |-> keyword, end |-> <<>>])
           ELSE Returned(matchingSections)

getSectionsByHeading(secs, keyword) ==
  IF ~validateKeywordInput(keyword)
  THEN Thrown([text |-> "Invalid keyword. It must be a non-empty string.",
               start |-> <<>>, end |-> <<>>])
  ELSE LET matchingSections ==
             SelectSeq(secs, LAMBDA section :
               Includes(ToLowerCase(section.heading), ToLowerCase(keyword)))
       IN  IF Len(matchingSections) = 0
           THEN Thrown([text |-> "No heading found with provided keyword: ",
                        start |-> keyword, end |-> <<>>])
           ELSE Returned(matchingSections)

----------------------------------------------------------------------------
(* Changelog range extraction.                                             *)

Digit(c) ==
  CASE c = "0" -> 0
    [] c = "1" -> 1
    [] c = "2" -> 2
    [] c = "3" -> 3
    [] OTHER -> 0

RECURSIVE NumVal(_)
NumVal(ds) ==
  IF ds = <<>> THEN 0
  ELSE 10 * NumVal(SubSeq(ds, 1, Len(ds) - 1)) + Digit(ds[Len(ds)])

RECURSIVE FieldEnd(_, _, _)
FieldEnd(s, i, stop) ==
  IF i <= Len(s) /\ s[i] \notin stop THEN FieldEnd(s, i + 1, stop) ELSE i

\* major, minor and patch of a version MAJOR.MINOR.PATCH[+BUILD]; the build
\* metadata takes no part in precedence.
SemverParse(v) ==
  LET coreEnd == FieldEnd(v, 1, {"+"})
      core == Slice(v, 1, coreEnd)
      e1 == FieldEnd(core, 1, {"."})
      e2 == FieldEnd(core, e1 + 1, {"."})
  IN  <<NumVal(Slice(core, 1, e1)),
        NumVal(Slice(core, e1 + 1, e2)),
        NumVal(Slice(core, e2 + 1, Len(core) + 1))>>

SemverLt(a, b) ==
  LET x == SemverParse(a)
      y == SemverParse(b)
  IN  \/ x[1] < y[1]
      \/ x[1] = y[1] /\ x[2] < y[2]
      \/ x[1] = y[1] /\ x[2] = y[2] /\ x[3] < y[3]

\* Variant: the versions are used in the order given.
OrderedVersionsAsGiven(startVersion, endVersion) ==
  <<startVersion, endVersion>>

\* The versions after the ordering step.
OrderedVersions(startVersion, endVersion) ==
  IF SemverLt(startVersion, endVersion)
  THEN <<endVersion, startVersion>>
  ELSE <<startVersion, endVersion>>

\* Variant: the scan stops at the end version only once it is collecting.
RECURSIVE RangeScanBreakInRange(_, _, _, _, _, _)
RangeScanBreakInRange(secs, i, startVersion, endVersion, isInRange, updates) ==
  IF i > Len(secs) THEN updates
  ELSE LET inRange == isInRange \/ Includes(secs[i].heading, startVersion)
           collected == IF inRange THEN Append(updates, secs[i]) ELSE updates
       IN  IF inRange /\ Includes(secs[i].heading, endVersion) THEN collected
           ELSE RangeScanBreakInRange(secs, i + 1, startVersion, endVersion,
                                      inRange, collected)

\* Variant: the section that holds the end version is not collected.
RECURSIVE RangeScanEndExclusive(_, _, _, _, _, _)
RangeScanEndExclusive(secs, i, startVersion, endVersion, isInRange, updates) ==
  IF i > Len(secs) THEN updates
  ELSE IF Includes(secs[i].heading, endVersion) THEN updates
  ELSE LET inRange == isInRange \/ Includes(secs[i].heading, startVersion)
       IN  RangeScanEndExclusive(secs, i + 1, startVersion, endVersion,
                                 inRange,
                                 IF inRange THEN Append(updates, secs[i])
                                 ELSE updates)

\* Variant: the scan does not stop at the end version.
RECURSIVE RangeScanNoBreak(_, _, _, _, _, _)
RangeScanNoBreak(secs, i, startVersion, endVersion, isInRange, updates) ==
  IF i > Len(secs) THEN updates
  ELSE LET inRange == isInRange \/ Includes(secs[i].heading, startVersion)
       IN  RangeScanNoBreak(secs, i + 1, startVersion, endVersion, inRange,
                            IF inRange THEN Append(updates, secs[i])
                            ELSE updates)

RECURSIVE RangeScan(_, _, _, _, _, _)
RangeScan(secs, i, startVersion, endVersion, isInRange, updates) ==
  IF i > Len(secs) THEN updates
  ELSE LET inRange == isInRange \/ Includes(secs[i].heading, startVersion)
           collected == IF inRange THEN Append(updates, secs[i]) ELSE updates
       IN  IF Includes(secs[i].heading, endVersion) THEN collected
           ELSE RangeScan(secs, i + 1, startVersion, endVersion, inRange,
                          collected)

\* Variant: an empty collection is returned instead of thrown.
getUpdatesBetweenVersionsNoThrow(secs, startVersion, endVersion) ==
  LET v == OrderedVersions(startVersion, endVersion)
  IN  Returned(RangeScan(secs, 1, v[1], v[2], FALSE, <<>>))

getUpdatesBetweenVersions(secs, startVersion, endVersion) ==
  LET v == OrderedVersions(startVersion, endVersion)
      updates == RangeScan(secs, 1, v[1], v[2], FALSE, <<>>)
  IN  IF Len(updates) = 0
      THEN Thrown([text |-> "No updates found between versions",
                   start |-> v[1], end |-> v[2]])
      ELSE Returned(updates)

----------------------------------------------------------------------------
(* Inputs.                                                                 *)

ParseLines ==
  {<<"#", "A">>, <<"#", "#", "b">>, <<"#", "#", "#", "c">>, <<"#", "#">>,
   <<"t">>, <<>>, <<"=">>, <<"-">>}

QueryLines ==
  {<<"#", "A">>, <<"#", "#", "b">>, <<"#", "#", "#", "a">>, <<"a">>}

RangeLines ==
  {<<"#", "#", "2", ".", "0", ".", "0">>,
   <<"#", "#", "1", ".", "0", ".", "0">>,
   <<"#", "#", "1", ".", "0", ".", "0", "+", "b">>,
   <<"#", "#", "#", "c">>,
   <<"t">>}

Versions ==
  {<<"2", ".", "0", ".", "0">>, <<"1", ".", "0", ".", "0">>,
   <<"1", ".", "0", ".", "0", "+", "b">>, <<"3", ".", "0", ".", "0">>}

SectionTypes == {"x", "y", "z"}

Keywords == {<<"a">>, <<"A">>, <<"b">>}

ErrorMessages == {"not found"}

FromFile(m) == [inline |-> FALSE, map |-> m]

InMemory(m) == [inline |-> TRUE, map |-> m]

DictX == [k \in {"x"} |-> <<<<"a">>>>]

DictXY == [k \in {"x", "y"} |-> IF k = "x" THEN <<<<"b">>>> ELSE <<<<"A">>>>]

DictY == [k \in {"y"} |-> <<<<"a">>, <<"b">>>>]

SourcePool == {FromFile(DictX), FromFile(DictXY), InMemory(DictY)}

QuerySources ==
  {<<FromFile(DictX)>>, <<FromFile(DictXY)>>,
   <<InMemory(DictY), FromFile(DictX)>>}

DocsOf(lines, n) == {Join(l) : l \in SeqsUpTo(lines, n)}

InitWith(docs, srcs) ==
  /\ content \in docs
  /\ sources \in srcs
  /\ sections = <<>>
  /\ dictionary = EmptyDictionary
  /\ alias = EmptyDictionary
  /\ added = 0
  /\ phase = "input"
  /\ op = [name |-> "none", type |-> "", kw |-> <<>>, start |-> <<>>,
           end |-> <<>>]
  /\ result = NoResult

InitParse == InitWith(DocsOf(ParseLines, MaxLines), {<<FromFile(DictX)>>})

InitQuery == InitWith(DocsOf(QueryLines, MaxLines), QuerySources)

InitRange == InitWith(DocsOf(RangeLines, MaxRangeLines), {<<FromFile(DictX)>>})

InitMerge ==
  InitWith({Join(<<<<"#", "A">>, <<"t">>>>)}, SeqsUpTo(SourcePool, MaxSources))

\* Processor dictionaries: a path is a directory and a file name, and the
\* file at that path holds a dictionary.
DefaultDir == "./dictionaries"

CustomDir == "./custom"

AtPath(dir, name, m) ==
  [inline |-> FALSE, map |-> m, dir |-> dir, name |-> name]

DefaultDictionary ==
  [k \in {"x", "y"} |-> IF k = "x" THEN <<<<"a">>>> ELSE <<<<"b">>>>]

DEFAULT_DICTIONARY_PATH == AtPath(DefaultDir, "default.json", DefaultDictionary)

CustomX == [k \in {"x"} |-> <<<<"b">>>>]

CustomXZ == [k \in {"x", "z"} |-> IF k = "x" THEN <<<<"A">>>> ELSE <<<<"a">>>>]

CustomPathPool ==
  {AtPath(CustomDir, "one.json", CustomX),
   AtPath(CustomDir, "two.json", CustomXZ),
   AtPath(DefaultDir, "mine.json", CustomX)}

ProcessorPaths ==
  SeqsUpTo(CustomPathPool, MaxSources) \cup {<<DEFAULT_DICTIONARY_PATH>>}

ProcessorDocs == {Join(<<<<"#", "A">>, <<"t">>>>), Join(<<<<"#", "#", "b">>>>)}

InitProcessor == InitWith(ProcessorDocs, ProcessorPaths)

\* Texts handed to formatText.
FormatChars == {"a", " ", NL}

InitFormat == InitWith(SeqsUpTo(FormatChars, MaxText), {<<FromFile(DictX)>>})

\* A session of mixed calls on one parser.
SessionLines ==
  {<<"#", "A", " ", "b">>, <<"#", "#", "b">>, <<"#", "#", "#", "a">>,
   <<"#", "#", "1", ".", "0", ".", "0">>}

HeadingKeywords == {<<"a">>, <<"B">>, <<" ">>, <<>>, NotAString}

AnySectionTypes == {"x", ""}

AnyKeywords == {<<"a">>, <<>>, <<" ">>}

InitSession == InitWith(DocsOf(SessionLines, MaxLines), {<<FromFile(DictXY)>>})

----------------------------------------------------------------------------
(* Operations.                                                             *)

Op(name, type, kw, start, end) ==
  [name |-> name, type |-> type, kw |-> kw, start |-> start, end |-> end]

\* new MarkdownParser(markdownInput, isFilePath, dictionaryFilePaths)
Construct ==
  /\ phase = "input"
  /\ sections' = extractSections(content)
  /\ dictionary' = mergeDictionaries(sources)
  /\ alias' = MergedAlias(sources)
  /\ phase' = "ready"
  /\ op' = Op("construct", "", <<>>, <<>>, <<>>)
  /\ result' = NoResult
  /\ UNCHANGED <<content, sources, added>>

\* path.dirname
dirname(path) == path.dir

\* The constructor of RepoReadmeProcessor, NpmReadmeProcessor and
\* ChangelogProcessor: a single path outside the default's directory is used
\* alone, anything else gets the default dictionary appended.
isCustomDict(dictionaryFilePaths) ==
  /\ Len(dictionaryFilePaths) = 1
  /\ dirname(dictionaryFilePaths[1]) # dirname(DEFAULT_DICTIONARY_PATH)

finalDictionaryPaths(dictionaryFilePaths) ==
  IF isCustomDict(dictionaryFilePaths) THEN dictionaryFilePaths
  ELSE Append(dictionaryFilePaths, DEFAULT_DICTIONARY_PATH)

\* new RepoReadmeProcessor(markdownInput, isFilePath, dictionaryFilePaths):
\* super(markdownInput, isFilePath, finalDictionaryPaths)
ConstructProcessor ==
  /\ phase = "input"
  /\ sources' = finalDictionaryPaths(sources)
  /\ sections' = extractSections(content)
  /\ dictionary' = mergeDictionaries(finalDictionaryPaths(sources))
  /\ alias' = MergedAlias(finalDictionaryPaths(sources))
  /\ phase' = "ready"
  /\ op' = Op("constructProcessor", "", <<>>, <<>>, <<>>)
  /\ result' = NoResult
  /\ UNCHANGED <<content, added>>

\* A keyword getter of a processor.
GetSectionsWithTemplate ==
  /\ phase = "ready"
  /\ \E sectionType \in SectionTypes, errorMessage \in ErrorMessages :
       /\ op' = Op("query", sectionType, <<>>, <<>>, <<>>)
       /\ result' = getSectionsWithTemplate(sections, dictionary, sectionType,
                                            errorMessage)
       /\ sections' = storedAfterQuery(sections, dictionary, sectionType)
  /\ UNCHANGED <<content, sources, dictionary, alias, added, phase>>

\* A keyword getter of NpmReadmeProcessor (cliUsage, versioningDetails,
\* scriptsDetails): this.getSectionWithTemplate(sectionType, errorMessage)
GetSectionWithTemplate ==
  /\ phase = "ready"
  /\ \E sectionType \in SectionTypes, errorMessage \in ErrorMessages :
       /\ op' = Op("queryOne", sectionType, <<>>, <<>>, <<>>)
       /\ result' = getSectionWithTemplate(sections, dictionary, sectionType,
                                           errorMessage)
  /\ UNCHANGED <<content, sections, sources, dictionary, alias, added, phase>>

\* parser.addKeywordForSection(section, keyword): push on the key's array,
\* which an in-memory source may share.
AddKeywordForSection ==
  /\ phase = "ready"
  /\ added < MaxAdded
  /\ \E section \in SectionTypes, keyword \in Keywords :
       /\ dictionary' = addKeywordForSection(dictionary, section, keyword)
       /\ alias' = IF section \in DOMAIN alias THEN alias
                   ELSE Spread(alias, [k \in {section} |-> 0])
       /\ sources' =
            IF section \in DOMAIN alias /\ alias[section] > 0
            THEN [sources EXCEPT ![alias[section]].map[section] =
                    Append(@, keyword)]
            ELSE sources
       /\ op' = Op("addKeyword", section, keyword, <<>>, <<>>)
  /\ added' = added + 1
  /\ result' = NoResult
  /\ UNCHANGED <<content, sections, phase>>

\* The same call with arguments a caller may get wrong: an empty key, an
\* empty or blank keyword.
AddAnyKeywordForSection ==
  /\ phase = "ready"
  /\ added < MaxAdded
  /\ \E section \in AnySectionTypes, keyword \in AnyKeywords :
       /\ dictionary' = addKeywordForSection(dictionary, section, keyword)
       /\ alias' = IF section \in DOMAIN alias THEN alias
                   ELSE Spread(alias, [k \in {section} |-> 0])
       /\ sources' =
            IF section \in DOMAIN alias /\ alias[section] > 0
            THEN [sources EXCEPT ![alias[section]].map[section] =
                    Append(@, keyword)]
            ELSE sources
       /\ op' = Op("addKeyword", section, keyword, <<>>, <<>>)
  /\ added' = added + 1
  /\ result' = NoResult
  /\ UNCHANGED <<content, sections, phase>>

\* parser.getSectionsByHeading(keyword)
GetSectionsByHeading ==
  /\ phase = "ready"
  /\ \E keyword \in HeadingKeywords :
       /\ op' = Op("heading", "", keyword, <<>>, <<>>)
       /\ result' = getSectionsByHeading(sections, keyword)
  /\ UNCHANGED <<content, sections, sources, dictionary, alias, added, phase>>

\* parser.formatText(text), here on the text the parser was built from.
FormatText ==
  /\ phase = "ready"
  /\ op' = Op("format", "", content, <<>>, <<>>)
  /\ result' = Returned(formatText(content))
  /\ UNCHANGED <<content, sections, sources, dictionary, alias, added, phase>>

\* parser.formatText(text) on the text the previous call returned.
FormatTextAgain ==
  /\ phase = "ready"
  /\ op.name = "format"
  /\ op' = Op("formatAgain", "", result.value, <<>>, <<>>)
  /\ result' = Returned(formatText(result.value))
  /\ UNCHANGED <<content, sections, sources, dictionary, alias, added, phase>>

\* parser.getKeywordsForSection(section)
GetKeywordsForSection ==
  /\ phase = "ready"
  /\ \E section \in SectionTypes :
       /\ op' = Op("keywords", section, <<>>, <<>>, <<>>)
       /\ result' = Returned(getKeywordsForSection(dictionary, section))
  /\ UNCHANGED <<content, sections, sources, dictionary, alias, added, phase>>

GetUpdatesBetweenVersions ==
  /\ phase = "ready"
  /\ \E startVersion \in Versions, endVersion \in Versions :
       /\ op' = Op("updates", "", <<>>, startVersion, endVersion)
       /\ result' = getUpdatesBetweenVersions(sections, startVersion,
                                              endVersion)
  /\ UNCHANGED <<content, sections, sources, dictionary, alias, added, phase>>

NextParse == Construct

NextQuery == Construct \/ GetSectionsWithTemplate \/ AddKeywordForSection

NextRange == Construct \/ GetUpdatesBetweenVersions

NextMerge == Construct \/ AddKeywordForSection \/ GetKeywordsForSection

NextProcessor ==
  ConstructProcessor \/ GetSectionsWithTemplate \/ GetSectionWithTemplate

NextSession ==
  \/ Construct
  \/ GetSectionsWithTemplate
  \/ GetSectionsByHeading
  \/ GetUpdatesBetweenVersions
  \/ AddAnyKeywordForSection

NextFormat == Construct \/ FormatText \/ FormatTextAgain

SpecParse == InitParse /\ [][NextParse]_vars

SpecQuery == InitQuery /\ [][NextQuery]_vars

SpecRange == InitRange /\ [][NextRange]_vars

SpecMerge == InitMerge /\ [][NextMerge]_vars

SpecProcessor == InitProcessor /\ [][NextProcessor]_vars

SpecSession == InitSession /\ [][NextSession]_vars

SpecFormat == InitFormat /\ [][NextFormat]_vars

----------------------------------------------------------------------------
(* Properties.                                                             *)

Ready == phase = "ready"

Marker == <<"#", "#", " ">>

BlankLine == <<NL, NL>>

\* The sections that directly follow section i and are deeper than it.
RunOf(secs, i) ==
  {k \in (i + 1)..Len(secs) :
     \A j \in (i + 1)..k : secs[j].level > secs[i].level}

Rendered(section) == Marker \o section.heading \o BlankLine \o section.body

IsEntryOf(secs, hs, k) ==
  /\ k \in 1..Len(secs)
  /\ secs[k].heading = hs[k].text
  /\ secs[k].level = hs[k].level

C2_OneSectionPerHeading ==
  Ready =>
    LET hs == extractHeadings(content)
    IN  /\ Len(sections) = Len(hs)
        /\ \A i \in 1..Len(hs) :
             sections[i].heading = hs[i].text /\ sections[i].level = hs[i].level
        /\ \A i \in 1..(Len(hs) - 1) : hs[i].startIndex < hs[i + 1].startIndex

C2_Witness ==
  /\ Ready
  /\ Len(sections) >= 3
  /\ 2 \in RunOf(sections, 1)
  /\ Includes(sections[1].body, Marker \o sections[2].heading)
  /\ sections[3].level <= sections[1].level

\* The headings a keyword of the queried type occurs in, as the search
\* compares them: the lower-cased heading against the stored keyword.
KeywordsOf(type) == IF type \in DOMAIN dictionary THEN dictionary[type] ELSE <<>>

HeadingHasKeyword(heading, type) ==
  \E n \in 1..Len(KeywordsOf(type)) :
    Includes(ToLowerCase(heading), KeywordsOf(type)[n])

MatchingIndexes(type) ==
  {i \in 1..Len(sections) : HeadingHasKeyword(sections[i].heading, type)}

\* The n-th smallest element of a set of numbers.
RECURSIVE Nth(_, _)
Nth(S, n) ==
  LET m == CHOOSE x \in S : \A y \in S : x <= y
  IN  IF n = 1 THEN m ELSE Nth(S \ {m}, n - 1)

IsQuery == Ready /\ op.name = "query"

\* C3: a query returns one result per section whose heading matches, in
\* document order, titled with that section's heading; a matching section
\* right after an open match starts a result of its own.
C3_OneResultPerMatch ==
  (IsQuery /\ result.kind = "returned") =>
    LET idx == MatchingIndexes(op.type)
    IN  /\ Len(result.value) = Cardinality(idx)
        /\ \A n \in 1..Len(result.value) :
             result.value[n].title = sections[Nth(idx, n)].heading

C3_Witness ==
  /\ IsQuery
  /\ result.kind = "returned"
  /\ Len(result.value) >= 2
  /\ \E i \in 1..(Len(sections) - 1) :
       /\ {i, i + 1} \subseteq MatchingIndexes(op.type)
       /\ sections[i + 1].level > sections[i].level

\* C4: a query throws the caller's message exactly when no heading matches
\* a keyword of the type, and never returns an empty list.
C4_ThrowsIffNoMatch ==
  IsQuery =>
    /\ result.kind \in {"returned", "thrown"}
    /\ result.kind = "thrown" <=> MatchingIndexes(op.type) = {}
    /\ result.kind = "thrown" => result.message.text \in ErrorMessages
    /\ result.kind = "returned" => Len(result.value) >= 1

C4_Witness ==
  /\ IsQuery
  /\ result.kind = "thrown"
  /\ op.type \notin DOMAIN dictionary
  /\ Len(sections) >= 2
  /\ \E t \in DOMAIN dictionary : MatchingIndexes(t) # {}

\* C5: a keyword matches a section exactly when the lower-cased heading
\* contains the lower-cased keyword, so a query succeeds exactly when some
\* heading contains some keyword of the type, ignoring case on both sides.
C5_CaseInsensitiveKeyword ==
  IsQuery =>
    (result.kind = "returned" <=>
       \E i \in 1..Len(sections) : \E n \in 1..Len(KeywordsOf(op.type)) :
         Includes(ToLowerCase(sections[i].heading),
                  ToLowerCase(KeywordsOf(op.type)[n])))

IsUpdates == Ready /\ op.name = "updates"

\* The version the scan starts at and the version it stops at.
ScanStart == IF SemverLt(op.start, op.end) THEN op.end ELSE op.start

ScanEnd == IF SemverLt(op.start, op.end) THEN op.start ELSE op.end

StartIndexes == {i \in 1..Len(sections) : Includes(sections[i].heading, ScanStart)}

EndIndexes == {i \in 1..Len(sections) : Includes(sections[i].heading, ScanEnd)}

FirstStart == CHOOSE i \in StartIndexes : \A j \in StartIndexes : i <= j

\* C6: when a start-matching section occurs before an end-matching one, the
\* result is the run of sections from the first start-matching section
\* through the first end-matching section after it (or at it).
C6_RunFromStartToEnd ==
  (IsUpdates /\ \E i \in StartIndexes : \E j \in EndIndexes : i < j) =>
    LET later == {j \in EndIndexes : j >= FirstStart}
        stop == CHOOSE j \in later : \A k \in later : j <= k
        strictlyLater == {j \in EndIndexes : j > FirstStart}
        stopAfter == CHOOSE j \in strictlyLater : \A k \in strictlyLater : j <= k
    IN  \/ result = Returned(SubSeq(sections, FirstStart, stop))
        \/ result = Returned(SubSeq(sections, FirstStart, stopAfter))

NotFoundBetween(s, e) ==
  Thrown([text |-> "No updates found between versions", start |-> s, end |-> e])

\* C7: when no heading contains the start version, the call throws "No
\* updates found between versions <start> and <end>" naming both versions.
C7_ThrowsWhenStartMissing ==
  (IsUpdates /\ StartIndexes = {}) => result = NotFoundBetween(ScanStart, ScanEnd)

C7_Witness ==
  /\ IsUpdates
  /\ StartIndexes = {}
  /\ EndIndexes # {}
  /\ Len(sections) >= 2
  /\ result.kind = "thrown"

\* C8: when a heading contains the start version and none contains the end
\* version, the call throws instead of returning the rest of the document.
C8_ThrowsWhenEndMissing ==
  (IsUpdates /\ StartIndexes # {} /\ EndIndexes = {}) => result.kind = "thrown"

\* C9 (as stated): the call with the two versions exchanged has the same
\* outcome, for any two versions.
C9_SameOutcomeExchanged ==
  IsUpdates =>
    LET exchanged == getUpdatesBetweenVersions(sections, op.end, op.start)
    IN  result.kind = exchanged.kind /\ result.value = exchanged.value

\* C9 (amended): the call with the two versions exchanged has the same
\* outcome when one version precedes the other or both are the same text.
C9_SameOutcomeExchangedDistinct ==
  (IsUpdates /\ (\/ SemverLt(op.start, op.end)
                 \/ SemverLt(op.end, op.start)
                 \/ op.start = op.end)) =>
    result = getUpdatesBetweenVersions(sections, op.end, op.start)

C9_Witness ==
  /\ IsUpdates
  /\ SemverLt(op.start, op.end)
  /\ result.kind = "returned"
  /\ Len(result.value) >= 2
  /\ Includes(result.value[1].heading, op.end)
  /\ Includes(result.value[Len(result.value)].heading, op.start)

SourcesDefining(k) == {i \in 1..Len(sources) : k \in DOMAIN sources[i].map}

LastDefining(k) ==
  CHOOSE i \in SourcesDefining(k) : \A j \in SourcesDefining(k) : j <= i

\* C10: after the merge the keys are the union of the sources' keys and
\* each key holds exactly the array of the last source that defines it.
C10_LastSourceWins ==
  (Ready /\ op.name = "construct") =>
    /\ DOMAIN dictionary = UNION {DOMAIN sources[i].map : i \in 1..Len(sources)}
    /\ \A k \in DOMAIN dictionary :
         dictionary[k] = sources[LastDefining(k)].map[k]

C10_Witness ==
  /\ Ready
  /\ op.name = "construct"
  /\ \E k \in DOMAIN dictionary :
       /\ Cardinality(SourcesDefining(k)) >= 2
       /\ \E i \in SourcesDefining(k) : sources[i].map[k] # dictionary[k]
  /\ \E k \in DOMAIN dictionary : LastDefining(k) < Len(sources)

----------------------------------------------------------------------------
\* The paths the caller passed to the processor, in the order given.
CustomPaths == SelectSeq(sources, LAMBDA p : p # DEFAULT_DICTIONARY_PATH)

\* C11: a custom dictionary passed to a processor overrides the default
\* dictionary: for every section type a custom dictionary defines, the merged
\* dictionary holds the keywords of the last custom dictionary defining it,
\* however many custom paths were passed and wherever they are.
C11_CustomOverridesDefault ==
  (Ready /\ op.name = "constructProcessor") =>
    \A n \in 1..Len(CustomPaths) : \A k \in DOMAIN CustomPaths[n].map :
      (\A m \in (n + 1)..Len(CustomPaths) : k \notin DOMAIN CustomPaths[m].map)
        => /\ k \in DOMAIN dictionary
           /\ dictionary[k] = CustomPaths[n].map[k]

----------------------------------------------------------------------------
\* C12: addKeywordForSection(section, keyword) creates the key with the list
\* [keyword] when it is absent and otherwise appends keyword at the end of
\* the key's list; the lists of all other keys are unchanged and the key's
\* keywords afterwards contain keyword.  getKeywordsForSection of an absent
\* key returns the empty list and creates no key.
C12_AddKeywordAppends ==
  [][/\ (added' = added + 1) =>
          /\ DOMAIN dictionary' = DOMAIN dictionary \cup {op'.type}
          /\ dictionary'[op'.type] =
               IF op'.type \in DOMAIN dictionary
               THEN Append(dictionary[op'.type], op'.kw)
               ELSE <<op'.kw>>
          /\ \A k \in DOMAIN dictionary \ {op'.type} :
               dictionary'[k] = dictionary[k]
          /\ \E n \in 1..Len(getKeywordsForSection(dictionary', op'.type)) :
               getKeywordsForSection(dictionary', op'.type)[n] = op'.kw
     /\ (op'.name = "keywords") =>
          /\ dictionary' = dictionary
          /\ result'.kind = "returned"
          /\ result'.value = IF op'.type \in DOMAIN dictionary
                             THEN dictionary[op'.type] ELSE <<>>]_vars

\* A keyword was appended to a key that already had one, next to another key.
C12_Witness ==
  /\ op.name = "addKeyword"
  /\ op.type \in DOMAIN dictionary
  /\ Len(dictionary[op.type]) >= 2
  /\ dictionary[op.type][Len(dictionary[op.type])] = op.kw
  /\ Cardinality(DOMAIN dictionary) >= 2

----------------------------------------------------------------------------
\* The keywords of the key a keyword was just added to, without that keyword.
KeywordsBeforeAdd == SubSeq(dictionary[op.type], 1, Len(dictionary[op.type]) - 1)

\* C13: when no keyword of a section type occurs in any heading, even
\* ignoring case, so that its query fails, and addKeywordForSection then adds
\* a keyword that occurs in some section's heading, the same query succeeds
\* and returns a section whose heading holds that keyword.
C13_QuerySucceedsAfterAddKeyword ==
  [][(/\ op.name = "addKeyword"
      /\ op'.name = "query"
      /\ op'.type = op.type
      /\ \A n \in 1..Len(KeywordsBeforeAdd) : \A i \in 1..Len(sections) :
           ~Includes(ToLowerCase(sections[i].heading),
                     ToLowerCase(KeywordsBeforeAdd[n]))
      /\ \E i \in 1..Len(sections) : Includes(sections[i].heading, op.kw))
     => /\ result'.kind = "returned"
        /\ \E n \in 1..Len(result'.value) :
             Includes(result'.value[n].title, op.kw)]_vars

----------------------------------------------------------------------------
\* C14: the section list is fixed once constructed: no keyword query,
\* getSectionsByHeading, getUpdatesBetweenVersions or addKeywordForSection
\* call, successful or failing, changes its length, order, levels, headings
\* or bodies.
C14_SectionsFixed == [][Ready => sections' = sections]_vars

\* A query returned a match whose body was extended beyond the stored one.
C14_Witness ==
  /\ IsQuery
  /\ result.kind = "returned"
  /\ Len(result.value[1].body) >
       Len(sections[Nth(MatchingIndexes(op.type), 1)].body)

----------------------------------------------------------------------------
IsFormatted == Ready /\ op.name \in {"format", "formatAgain"}

\* C15: formatText is idempotent, its result never holds three or more
\* newlines in a row, and its result neither starts nor ends with whitespace.
C15_FormatTextIdempotent ==
  IsFormatted =>
    /\ (op.name = "formatAgain") => result.value = op.kw
    /\ ~Includes(result.value, <<NL, NL, NL>>)
    /\ result.value # <<>> =>
         /\ result.value[1] \notin Whitespace
         /\ result.value[Len(result.value)] \notin Whitespace

\* A text with a long run of newlines inside and whitespace around it was
\* formatted twice.
C15_Witness ==
  /\ Ready
  /\ op.name = "formatAgain"
  /\ Includes(content, <<"a", NL, NL, NL>>)
  /\ content[1] \in Whitespace
  /\ Includes(result.value, <<NL, NL, "a">>)

----------------------------------------------------------------------------
IsHeadingSearch == Ready /\ op.name = "heading" /\ op.kw # NotAString

\* The sections whose heading contains the keyword of the call, ignoring case.
HeadingIndexes ==
  {i \in 1..Len(sections) :
     Includes(ToLowerCase(sections[i].heading), ToLowerCase(op.kw))}

ReturnsHeadingMatches ==
  /\ result.kind = "returned"
  /\ Len(result.value) = Cardinality(HeadingIndexes)
  /\ \A n \in 1..Len(result.value) :
       result.value[n] = sections[Nth(HeadingIndexes, n)]

ThrowsNoHeadingFound ==
  /\ result.kind = "thrown"
  /\ result.message.text = "No heading found with provided keyword: "
  /\ result.message.start = op.kw

\* C16 (as stated): for every keyword string, getSectionsByHeading(keyword)
\* returns all and only the sections whose heading contains the keyword
\* ignoring case, in document order, whenever there is such a section, and
\* throws only when there is none.
C16_AllAndOnlyMatches ==
  IsHeadingSearch =>
    IF HeadingIndexes = {} THEN result.kind = "thrown"
    ELSE ReturnsHeadingMatches

\* C16 (amended): for every keyword that is not blank, the call returns all
\* and only the sections whose heading contains the keyword ignoring case,
\* in document order, and throws the no-heading-found error naming the
\* keyword exactly when no section matches.
C16_AllAndOnlyMatchesNonBlank ==
  (IsHeadingSearch /\ Trim(op.kw) # <<>>) =>
    IF HeadingIndexes = {} THEN ThrowsNoHeadingFound
    ELSE ReturnsHeadingMatches

\* A keyword with an upper-case letter found two sections and passed over a
\* third.
C16_Witness ==
  /\ IsHeadingSearch
  /\ op.kw = <<"B">>
  /\ result.kind = "returned"
  /\ Len(result.value) >= 2
  /\ Len(result.value) < Len(sections)

----------------------------------------------------------------------------
\* C17: a call with an invalid argument is rejected and leaves the
\* dictionary unchanged: getSectionsByHeading or addKeywordForSection with a
\* keyword that is empty, whitespace only or no string, and
\* addKeywordForSection with an empty section-type key.
C17_InvalidArgumentsRejected ==
  [][/\ (op'.name = "heading" /\ ~validateKeywordInput(op'.kw)) =>
          /\ result'.kind = "thrown"
          /\ dictionary' = dictionary
     /\ (/\ added' = added + 1
         /\ (Trim(op'.kw) = <<>> \/ op'.type = "")) =>
          /\ result'.kind = "thrown"
          /\ dictionary' = dictionary]_vars

----------------------------------------------------------------------------
IsGetter == Ready /\ op.name \in {"query", "queryOne"}

\* C18: every keyword getter of every processor hands back one shape: when
\* it does not throw, the result is the list of the matching sections and
\* its first element is the first match; no getter hands back a single
\* record.
C18_GettersReturnLists ==
  (IsGetter /\ result.kind # "thrown") =>
    /\ result.kind = "returned"
    /\ Len(result.value) >= 1
    /\ result.value[1].title =
         sections[Nth(MatchingIndexes(op.type), 1)].heading

----------------------------------------------------------------------------
\* The sections appended to the match at index m: those after m that are
\* deeper than m, with only non-matching sections deeper than m in between.
AppendedTo(m, type) ==
  {s \in (m + 1)..Len(sections) :
     \A j \in (m + 1)..s :
       /\ ~HeadingHasKeyword(sections[j].heading, type)
       /\ sections[j].level > sections[m].level}

\* The blocks of the sections of S, in document order.
RECURSIVE BlocksOf(_)
BlocksOf(S) ==
  IF S = {} THEN <<>>
  ELSE LET s == CHOOSE x \in S : \A y \in S : x <= y
       IN  Marker \o sections[s].heading \o BlankLine \o sections[s].body
           \o (IF S = {s} THEN <<>> ELSE BlankLine \o BlocksOf(S \ {s}))

\* C19: in a keyword query a non-matching section S is appended to the open
\* match M exactly when S is deeper than M and every section between them is
\* non-matching and deeper than M; the first non-matching section that is
\* not deeper closes M, and nothing after it is appended to M.
C19_AppendedWhileDeeper ==
  (IsQuery /\ result.kind = "returned") =>
    \A n \in 1..Len(result.value) :
      LET m == Nth(MatchingIndexes(op.type), n)
          run == AppendedTo(m, op.type)
      IN  result.value[n].body =
            formatText(sections[m].body
                       \o (IF run = {} THEN <<>>
                           ELSE BlankLine \o BlocksOf(run)))

\* A match took in a deeper section, was closed by a section that is not
\* deeper, and a deeper section after that one was left out.
C19_Witness ==
  /\ IsQuery
  /\ result.kind = "returned"
  /\ \E m \in MatchingIndexes(op.type) :
       \E c \in (m + 2)..(Len(sections) - 1) :
         /\ (m + 1) \in AppendedTo(m, op.type)
         /\ \A j \in (m + 1)..Len(sections) :
              ~HeadingHasKeyword(sections[j].heading, op.type)
         /\ sections[c].level <= sections[m].level
         /\ sections[c + 1].level > sections[m].level

----------------------------------------------------------------------------
\* TRUE when section k is the first one after section i that is not deeper
\* than section i.
StopsAt(i, k) ==
  /\ k \in (i + 1)..Len(sections)
  /\ sections[k].level <= sections[i].level
  /\ \A j \in (i + 1)..(k - 1) : sections[j].level > sections[i].level

\* The document cut off right before heading k.
ContentBefore(k) ==
  SubSeq(content, 1, extractHeadings(content)[k].startIndex - 1)

\* C20: absorption into a section stops at the first following heading that
\* is not deeper: nothing at or after that heading reaches the section's
\* body, so the body is what it would be if the document ended there.
C20_AbsorptionStops ==
  Ready =>
    \A i \in 1..Len(sections) : \A k \in 1..Len(sections) :
      StopsAt(i, k) =>
        sections[i].body = extractSections(ContentBefore(k))[i].body

\* A section took in a deeper one, met a heading that is not deeper, and a
\* deeper heading follows that one.
C20_Witness ==
  /\ Ready
  /\ \E i \in 1..Len(sections) : \E k \in 1..(Len(sections) - 1) :
       /\ StopsAt(i, k)
       /\ k > i + 1
       /\ sections[k + 1].level > sections[i].level
       /\ Includes(sections[i].body, Marker \o sections[i + 1].heading)
       /\ ~Includes(sections[i].body, Marker \o sections[k + 1].heading)

----------------------------------------------------------------------------
\* The number of places where k occurs in s.
Occurrences(s, k) ==
  Cardinality({i \in 0..(Len(s) - Len(k)) : SubSeq(s, i + 1, i + Len(k)) = k})

\* One block per heading of S, in document order, each with the text
\* between that heading and the next heading.
RECURSIVE OwnBlocks(_)
OwnBlocks(S) ==
  IF S = {} THEN <<>>
  ELSE LET k == CHOOSE x \in S : \A y \in S : x <= y
           hs == extractHeadings(content)
       IN  BlankLine \o Marker \o hs[k].text \o BlankLine
           \o OwnBody(content, hs, k) \o OwnBlocks(S \ {k})

----------------------------------------------------------------------------
\* One block per section of S, in document order, each carrying the body of
\* that section's own entry.
RECURSIVE EntryBlocks(_)
EntryBlocks(S) ==
  IF S = {} THEN <<>>
  ELSE LET k == CHOOSE x \in S : \A y \in S : x <= y
       IN  BlankLine \o Rendered(sections[k]) \o EntryBlocks(S \ {k})

BlockText(k) ==
  IF RunOf(sections, k) = {} THEN sections[k].body
  ELSE OwnBody(content, extractHeadings(content), k)

RECURSIVE LeafEntryBlocks(_)
LeafEntryBlocks(S) ==
  IF S = {} THEN <<>>
  ELSE LET k == CHOOSE x \in S : \A y \in S : x <= y
       IN  BlankLine \o Marker \o sections[k].heading \o BlankLine
           \o BlockText(k) \o LeafEntryBlocks(S \ {k})

----------------------------------------------------------------------------
\* The offsets of a text where a line starts with a hash.
HashLineStarts(b) ==
  {p \in 1..Len(b) : (p = 1 \/ b[p - 1] = NL) /\ b[p] = "#"}

\* C23: an absorbed subsection is written into the ancestor's body with the
\* fixed marker of two hashes whatever its level: the body has one marker
\* line per absorbed subsection and each starts with exactly two hashes,
\* while every entry of the section list keeps the level of its heading.
C23_FixedTwoHashMarker ==
  Ready =>
    /\ \A i \in 1..Len(sections) :
         LET b == sections[i].body
         IN  /\ Cardinality(HashLineStarts(b)) =
                  Cardinality(RunOf(sections, i))
             /\ \A p \in HashLineStarts(b) :
                  /\ p + 1 <= Len(b)
                  /\ b[p + 1] = "#"
                  /\ p + 2 <= Len(b) => b[p + 2] = " "
    /\ \A k \in 1..Len(sections) :
         sections[k].level = extractHeadings(content)[k].level

\* A subsection of level three or more written with two hashes into the
\* body of a section two or more levels above it.
C23_Witness ==
  /\ Ready
  /\ \E i \in 1..Len(sections) : \E k \in RunOf(sections, i) :
       /\ sections[k].level >= 3
       /\ sections[k].level >= sections[i].level + 2
       /\ sections[k].heading # <<>>
       /\ Includes(sections[i].body, Marker \o sections[k].heading)
       /\ ~Includes(sections[i].body, <<"#", "#", "#">>)

----------------------------------------------------------------------------
\* The level the text of the document gives the heading that starts at
\* offset p: the number of hashes, or 1 for an underline of = and 2 for an
\* underline of -.
LevelInText(p) ==
  IF content[p] = "#" THEN RunEnd(content, p, {"#"}) - p
  ELSE IF content[LineEnd(content, p) + 1] = "=" THEN 1 ELSE 2

\* C24: every heading the scanner produces has a level of at least 1, the
\* number of hashes or 1 for an underline of = and 2 for an underline of -;
\* level 0 never occurs, and no section has level 0.
C24_LevelAtLeastOne ==
  Ready =>
    LET hs == extractHeadings(content)
    IN  /\ \A k \in 1..Len(hs) :
             /\ hs[k].level >= 1
             /\ hs[k].level = LevelInText(hs[k].startIndex)
        /\ \A k \in 1..Len(sections) : sections[k].level >= 1

\* A document with a heading of three hashes and a heading underlined
\* with -.
C24_Witness ==
  /\ Ready
  /\ \E j \in 1..Len(sections) : \E k \in 1..Len(sections) :
       LET hs == extractHeadings(content)
       IN  /\ content[hs[j].startIndex] = "#"
           /\ sections[j].level = 3
           /\ content[hs[k].startIndex] # "#"
           /\ sections[k].level = 2

----------------------------------------------------------------------------
\* TRUE when a line made of hashes only starts at offset p.
BareHashLine(p) ==
  /\ AtLineStart(content, p)
  /\ content[p] = "#"
  /\ AtLineEnd(content, RunEnd(content, p, {"#"}))

\* C25: a line that consists of hashes only yields a heading of its own with
\* empty text, whatever the following lines hold, so that consecutive lines
\* of hashes yield one heading each.
C25_BareHashLineHasEmptyText ==
  Ready =>
    \A p \in 1..Len(content) :
      BareHashLine(p) =>
        \E k \in 1..Len(sections) :
          /\ extractHeadings(content)[k].startIndex = p
          /\ sections[k].heading = <<>>

----------------------------------------------------------------------------
\* C26: every successful getUpdatesBetweenVersions result is a non-empty
\* run of consecutive sections of the section list; the heading of its first
\* element contains the start version (after the ordering step), and no
\* element but the last has a heading that contains the end version.
C26_ResultIsSlice ==
  (IsUpdates /\ result.kind = "returned") =>
    /\ Len(result.value) >= 1
    /\ \E a \in 1..Len(sections) :
         result.value = SubSeq(sections, a, a + Len(result.value) - 1)
    /\ Includes(result.value[1].heading, ScanStart)
    /\ \A n \in 1..(Len(result.value) - 1) :
         ~Includes(result.value[n].heading, ScanEnd)

\* A result of two or more sections that ends at the end version, with a
\* section before it and a section after it in the list.
C26_Witness ==
  /\ IsUpdates
  /\ result.kind = "returned"
  /\ Len(result.value) >= 2
  /\ Len(result.value) + 2 <= Len(sections)
  /\ Includes(result.value[Len(result.value)].heading, ScanEnd)
  /\ ~Includes(sections[1].heading, ScanStart)
  /\ result.value[Len(result.value)] # sections[Len(sections)]

----------------------------------------------------------------------------
FirstEnd == CHOOSE i \in EndIndexes : \A j \in EndIndexes : i <= j

EndComesFirst ==
  /\ StartIndexes # {}
  /\ EndIndexes # {}
  /\ FirstEnd < FirstStart

----------------------------------------------------------------------------
\* TRUE when section i is the first whose heading contains the start or the
\* end version, and its heading contains both.
FirstHoldsBoth(i) ==
  /\ i \in StartIndexes \cap EndIndexes
  /\ \A j \in 1..(i - 1) : j \notin StartIndexes \cup EndIndexes

\* C28: when one heading contains both the start and the end version, the
\* two being equal or not, and no earlier heading contains either, the call
\* succeeds and returns exactly that one section.
C28_OneSectionWhenHeadingHoldsBoth ==
  IsUpdates =>
    \A i \in 1..Len(sections) :
      FirstHoldsBoth(i) => result = Returned(<<sections[i]>>)

\* Two different versions found in one heading that is neither the first
\* nor the last section.
C28_Witness ==
  /\ IsUpdates
  /\ op.start # op.end
  /\ \E i \in 2..(Len(sections) - 1) : FirstHoldsBoth(i)
  /\ result.kind = "returned"
  /\ Len(result.value) = 1

----------------------------------------------------------------------------
\* The matched section m with each section taken in by a query for type
\* rendered once: its own text, then one block per section taken in.
RenderedOnce(m, type) ==
  Trim(OwnBody(content, extractHeadings(content), m)
       \o OwnBlocks(AppendedTo(m, type)))

\* C29: in a keyword query result the block of each deeper section under a
\* match appears exactly once in the returned body: wherever rendering each
\* section under the match once shows the line '## <heading>' of a section
\* one time, the returned body shows it one time as well.
C29_SubsectionRenderedOnce ==
  (IsQuery /\ result.kind = "returned") =>
    \A n \in 1..Len(result.value) :
      LET m == Nth(MatchingIndexes(op.type), n)
      IN  \A k \in AppendedTo(m, op.type) :
            LET line == Marker \o sections[k].heading
            IN  Occurrences(RenderedOnce(m, op.type), line) = 1
                  => Occurrences(result.value[n].body, line) = 1

----------------------------------------------------------------------------
\* C30: addKeywordForSection on a parser never changes the dictionary
\* sources the parser was built from: after merging an in-memory mapping,
\* appending a keyword to an existing key leaves the caller's mapping and
\* its keyword arrays as they were.
C30_AddKeywordLeavesSources ==
  [][(added' = added + 1) => sources' = sources]_vars

====
